---- MODULE Spec2Model ----
(***************************************************************************)
(* A model of src/main.rs: the Conway grid (cells, scratch_cells, width,   *)
(* height), its constructors, update(), draw() and the helpers neighbors() *)
(* and next_cell_state().  Vectors and slices are functions over 0..n-1,   *)
(* indexed as in the source (idx = x + width*y).                           *)
(***************************************************************************)
EXTENDS Integers, FiniteSets, Sequences, TLC

\* ---------------------------------------------------------------- bounds
\* Largest width and largest height a constructor is given (0 included).
MaxDim == 3
\* Largest number of cells (width * height) of a grid.
MaxCells == 9
\* Number of update() calls followed in one run (the code keeps no counter).
MaxGens == 2
\* The frame handed to draw() has width*height*4 + d bytes, -MaxSlack <= d <= MaxSlack.
MaxSlack == 1
\* The blinker fixtures live on grids of 5 .. 5 + FixtureExtra cells a side.
FixtureExtra == 0

\* ------------------------------------------------------------- constants
\* i32::MAX: x, y, nx, ny and the index expression of neighbors() are i32.
I32Max == 2147483647

\* Bytes a frame may hold before the first draw().
FillBytes == {85}

VARIABLES
    cells,          \* Conway.cells
    scratch_cells,  \* Conway.scratch_cells
    width,          \* Conway.width
    height,         \* Conway.height
    frame,          \* the byte slice the host passes to draw()
    signal,         \* what the last call signalled: "none" or "panic"
    last,           \* the last operation: "new", "new_random", "frame", "update", "draw"
    dim0,           \* history: <<width, height>> as constructed
    gen0,           \* history: cells as constructed
    gens,           \* history: number of completed update() calls
    pre_cells,      \* history: cells when the last update() was entered
    counts,         \* history: the value n of each cell in the last update()
    pre_frame,      \* history: frame when the last draw() was entered
    pre_grid,       \* history: <<cells, scratch_cells, width, height>> at that moment
    app,            \* App: the host's window_event/resumed state (the App runs)
    pass,           \* the position of update() inside its loops (the stepwise runs)
    twin,           \* a second grid with other scratch_cells (the twin runs)
    rule            \* one call of next_cell_state (the rule runs)

\* The variables only the runs named above use.
aux == <<app, pass, twin, rule>>

vars == <<cells, scratch_cells, width, height, frame, signal, last,
          dim0, gen0, gens, pre_cells, counts, pre_frame, pre_grid, app, pass, twin, rule>>

\* ------------------------------------------------------------ primitives
\* Vec::len / slice::len
VecLen(v) == Cardinality(DOMAIN v)

\* `as i32`: keeps the low 32 bits, two's complement.
AsI32(v) == IF v > I32Max THEN (v - I32Max) - I32Max - 2 ELSE v

\* `as usize` of an i32: sign-extends, so a negative v becomes 2^64 + v.  The
\* result is used only to index a vector, and 2^64 is beyond the integers of
\* the model checker: I32Max + 1 stands for it, so that a negative v yields an
\* index beyond every vector of the model, as 2^64 + v is beyond every Vec.
AsUsize(v) == IF v >= 0 THEN v ELSE (I32Max + v) + 1

\* Conway::next_cell_state with a dead cell born on up to 3 neighbors.
next_cell_stateLe3(alive, neighbors) ==
    IF alive THEN neighbors \in 2..3 ELSE neighbors <= 3

\* Conway::next_cell_state with an alive cell kept on 2 neighbors or more.
next_cell_stateFrom2(alive, neighbors) ==
    IF alive THEN neighbors >= 2 ELSE neighbors = 3

\* Conway::next_cell_state
next_cell_state(alive, neighbors) ==
    IF alive THEN neighbors \in 2..3 ELSE neighbors = 3

\* The index expression of neighbors(): (nx + ny * self.width as i32) as usize
neighborIdx(w, nx, ny) == AsUsize(AsI32(nx + ny * AsI32(w)))

\* The condition of neighbors() without the test nx < self.width.
neighborHitNoRightEdge(c, w, h, nx, ny) ==
    /\ 0 <= nx
    /\ 0 <= ny
    /\ ny < AsI32(h)
    /\ neighborIdx(w, nx, ny) \in DOMAIN c
    /\ c[neighborIdx(w, nx, ny)]

\* The condition of the `if` in neighbors(): the four range tests, then the read
\* self.cells[idx], which && reaches only when the four tests passed.
neighborHit(c, w, h, nx, ny) ==
    /\ 0 <= nx
    /\ nx < AsI32(w)
    /\ 0 <= ny
    /\ ny < AsI32(h)
    /\ neighborIdx(w, nx, ny) \in DOMAIN c
    /\ c[neighborIdx(w, nx, ny)]

\* neighbors() reading self.cells[idx] before the four range tests.
neighborPanicsReadFirst(c, w, h, nx, ny) ==
    neighborIdx(w, nx, ny) \notin DOMAIN c

\* TRUE when the read self.cells[idx] of neighbors() is reached with idx out of range.
neighborPanics(c, w, h, nx, ny) ==
    /\ 0 <= nx
    /\ nx < AsI32(w)
    /\ 0 <= ny
    /\ ny < AsI32(h)
    /\ neighborIdx(w, nx, ny) \notin DOMAIN c

\* Conway::neighbors: n is incremented once for each (dx, dy) of -1..=1 x -1..=1
\* whose condition holds.
neighbors(c, w, h, x, y) ==
    Cardinality({d \in (-1 .. 1) \X (-1 .. 1) : neighborHit(c, w, h, x + d[1], y + d[2])})

\* ---------------------------------------------------------- constructors
\* Conway::new with a capacity rounded up to at least one element.
newMinOne(w, h) ==
    LET n == IF w * h = 0 THEN 1 ELSE w * h
        empty_cells == [i \in 0 .. n - 1 |-> FALSE]
    IN  [cells |-> empty_cells, scratch_cells |-> empty_cells, width |-> w, height |-> h]

\* Conway::new with scratch_cells taken before the resize.
newScratchEmpty(w, h) ==
    [cells |-> [i \in 0 .. w * h - 1 |-> FALSE], scratch_cells |-> <<>>,
     width |-> w, height |-> h]

\* Conway::new: Vec::with_capacity(width * height) has capacity width * height
\* exactly, and resize(capacity, false) fills it with false.
new(w, h) ==
    LET empty_cells == [i \in 0 .. w * h - 1 |-> FALSE]
    IN  [cells |-> empty_cells, scratch_cells |-> empty_cells, width |-> w, height |-> h]

\* Conway::new_random: rng[i] is the i-th result of rng.random_bool(0.3).
new_random(w, h, rng) ==
    LET con == new(w, h)
    IN  [con EXCEPT !.cells = [i \in DOMAIN con.cells |-> rng[i]]]

\* ---------------------------------------------------------------- update
\* The loops of update() writing scratch_cells[idx] only when the cell's state changes.
RECURSIVE updateLoopWriteOnChange(_, _, _, _, _)
updateLoopWriteOnChange(c, s, w, h, k) ==
    IF k >= w * h THEN s
    ELSE LET x == k % w
             y == k \div w
             n == neighbors(c, w, h, AsI32(x), AsI32(y))
             idx == x + w * y
             nxt == next_cell_state(c[idx], n)
         IN  updateLoopWriteOnChange(c, IF nxt = c[idx] THEN s ELSE [s EXCEPT ![idx] = nxt],
                                     w, h, k + 1)

\* The loops of update() from cell k on, in the order of the source (y outer,
\* x inner, so idx = x + width*y = k): reads c, writes s[idx].
RECURSIVE updateLoop(_, _, _, _, _)
updateLoop(c, s, w, h, k) ==
    IF k >= w * h THEN s
    ELSE LET x == k % w
             y == k \div w
             n == neighbors(c, w, h, AsI32(x), AsI32(y))
             idx == x + w * y
         IN  updateLoop(c, [s EXCEPT ![idx] = next_cell_state(c[idx], n)], w, h, k + 1)

\* TRUE when an index of update() or neighbors() is out of range.
updatePanics(c, s, w, h) ==
    \E k \in 0 .. w * h - 1 :
        \/ k \notin DOMAIN c
        \/ k \notin DOMAIN s
        \/ \E d \in (-1 .. 1) \X (-1 .. 1) :
               neighborPanics(c, w, h, (k % w) + d[1], (k \div w) + d[2])

\* Conway::update ending with a copy of scratch_cells into cells, not a swap.
updateCopy(c, s, w, h) ==
    [cells |-> updateLoop(c, s, w, h, 0), scratch_cells |-> updateLoop(c, s, w, h, 0)]

\* Conway::update: the loops, then std::mem::swap(cells, scratch_cells).
update(c, s, w, h) ==
    [cells |-> updateLoop(c, s, w, h, 0), scratch_cells |-> c]

\* ------------------------------------------------------------------ draw
\* The color of draw() with a transparent dead pixel.
colorDeadTransparent(c) == IF c THEN <<255, 255, 255, 255>> ELSE <<0, 0, 0, 0>>

\* The color of draw(): [0xff, 0xff, 0xff, 0xff] or [0, 0, 0, 0xff]
color(c) == IF c THEN <<255, 255, 255, 255>> ELSE <<0, 0, 0, 255>>

\* The number of pairs with chunks_mut(4), which keeps a last, shorter chunk.
drawPairsCeil(c, f) ==
    IF VecLen(c) <= (VecLen(f) + 3) \div 4 THEN VecLen(c) ELSE (VecLen(f) + 3) \div 4

\* The number of (c, pix) pairs of cells.iter().zip(frame.chunks_exact_mut(4)).
drawPairs(c, f) ==
    IF VecLen(c) <= VecLen(f) \div 4 THEN VecLen(c) ELSE VecLen(f) \div 4

\* Conway::draw behind a length check: nothing is written unless the lengths agree.
drawChecked(c, f) ==
    IF VecLen(f) # 4 * VecLen(c) THEN f
    ELSE [i \in DOMAIN f |-> color(c[i \div 4])[(i % 4) + 1]]

\* Conway::draw: pix.copy_from_slice(&color) for each pair.
draw(c, f) ==
    [i \in DOMAIN f |->
        IF i \div 4 < drawPairs(c, f) THEN color(c[i \div 4])[(i % 4) + 1] ELSE f[i]]

\* --------------------------------------------------------------- actions
Dims == {d \in (0 .. MaxDim) \X (0 .. MaxDim) : d[1] * d[2] <= MaxCells}

\* The runs that do not use a variable of aux leave it at this value.
AuxIdle ==
    /\ app = "unused"
    /\ pass = "unused"
    /\ twin = "unused"
    /\ rule = "unused"

InitCore(con, ctor) ==
    /\ cells = con.cells
    /\ scratch_cells = con.scratch_cells
    /\ width = con.width
    /\ height = con.height
    /\ frame = <<>>
    /\ signal = "none"
    /\ last = ctor
    /\ dim0 = <<con.width, con.height>>
    /\ gen0 = con.cells
    /\ gens = 0
    /\ pre_cells = con.cells
    /\ counts = <<>>
    /\ pre_frame = <<>>
    /\ pre_grid = <<con.cells, con.scratch_cells, con.width, con.height>>

InitWith(con, ctor) == InitCore(con, ctor) /\ AuxIdle

\* Conway::new(width, height) or Conway::new_random(width, height)
Init ==
    \E d \in Dims :
        \/ InitWith(new(d[1], d[2]), "new")
        \/ \E rng \in [DOMAIN new(d[1], d[2]).cells -> BOOLEAN] :
               InitWith(new_random(d[1], d[2], rng), "new_random")

FrameLens == {l \in (4 * width * height - MaxSlack) .. (4 * width * height + MaxSlack) : l >= 0}

\* The host creates the frame once, after the grid and before the first redraw
\* (resumed): len bytes, each holding fill.
FrameCore(len, fill) ==
    /\ last \in {"new", "new_random"}
    /\ frame' = [i \in 0 .. len - 1 |-> fill]
    /\ last' = "frame"
    /\ UNCHANGED <<cells, scratch_cells, width, height, signal,
                   dim0, gen0, gens, pre_cells, counts, pre_frame, pre_grid>>

FrameOf(len, fill) == FrameCore(len, fill) /\ UNCHANGED aux

NewFrame == \E len \in FrameLens, fill \in FillBytes : FrameOf(len, fill)

\* self.conway.update()
UpdateCore ==
    /\ signal = "none"
    /\ last \notin {"new", "new_random"}
    /\ gens < MaxGens
    /\ IF updatePanics(cells, scratch_cells, width, height)
       THEN /\ signal' = "panic"
            /\ UNCHANGED <<cells, scratch_cells, counts>>
       ELSE /\ signal' = "none"
            /\ cells' = update(cells, scratch_cells, width, height).cells
            /\ scratch_cells' = update(cells, scratch_cells, width, height).scratch_cells
            /\ counts' = [k \in 0 .. width * height - 1 |->
                             neighbors(cells, width, height, k % width, k \div width)]
    /\ pre_cells' = cells
    /\ gens' = gens + 1
    /\ last' = "update"
    /\ UNCHANGED <<width, height, frame, dim0, gen0, pre_frame, pre_grid>>

Update == UpdateCore /\ UNCHANGED aux

\* draw() taking &mut self and exchanging the two vectors.
DrawSwapping ==
    /\ signal = "none"
    /\ last \notin {"new", "new_random"}
    /\ frame' = draw(cells, frame)
    /\ pre_frame' = frame
    /\ pre_grid' = <<cells, scratch_cells, width, height>>
    /\ last' = "draw"
    /\ cells' = scratch_cells
    /\ scratch_cells' = cells
    /\ UNCHANGED <<width, height, signal, dim0, gen0, gens, pre_cells, counts, aux>>

\* self.conway.draw(frame)
DrawCore ==
    /\ signal = "none"
    /\ last \notin {"new", "new_random"}
    /\ frame' = draw(cells, frame)
    /\ pre_frame' = frame
    /\ pre_grid' = <<cells, scratch_cells, width, height>>
    /\ last' = "draw"
    /\ UNCHANGED <<cells, scratch_cells, width, height, signal,
                   dim0, gen0, gens, pre_cells, counts>>

Draw == DrawCore /\ UNCHANGED aux

Next ==
    \/ NewFrame
    \/ Update
    \/ Draw

Spec == Init /\ [][Next]_vars

\* ----------------------------------------------------- the stepwise runs
\* The body of update()'s inner loop writing the new state into cells itself.
updateCellInPlace(c, s, w, h, k) ==
    LET x == k % w
        y == k \div w
        n == neighbors(c, w, h, AsI32(x), AsI32(y))
        idx == x + w * y
    IN  [cells |-> [c EXCEPT ![idx] = next_cell_state(c[idx], n)], scratch_cells |-> s, n |-> n]

\* The body of update()'s inner loop for cell k = x + width*y: n is the value
\* of neighbors(x, y), and scratch_cells[idx] is written.
updateCell(c, s, w, h, k) ==
    LET x == k % w
        y == k \div w
        n == neighbors(c, w, h, AsI32(x), AsI32(y))
        idx == x + w * y
    IN  [cells |-> c, scratch_cells |-> [s EXCEPT ![idx] = next_cell_state(c[idx], n)], n |-> n]

\* Conway::new or Conway::new_random, update() not entered.
InitStep ==
    /\ \E d \in Dims :
           \/ InitCore(new(d[1], d[2]), "new")
           \/ \E rng \in [DOMAIN new(d[1], d[2]).cells -> BOOLEAN] :
                  InitCore(new_random(d[1], d[2], rng), "new_random")
    /\ pass = [active |-> FALSE, k |-> 0, swaps |-> 0]
    /\ app = "unused"
    /\ twin = "unused"
    /\ rule = "unused"

\* update() is entered: the loops start at y = 0, x = 0.
UpdateEnter ==
    /\ ~pass.active
    /\ gens < MaxGens
    /\ pass' = [active |-> TRUE, k |-> 0, swaps |-> 0]
    /\ pre_cells' = cells
    /\ counts' = <<>>
    /\ last' = "update_entered"
    /\ UNCHANGED <<cells, scratch_cells, width, height, frame, signal,
                   dim0, gen0, gens, pre_frame, pre_grid, app, twin, rule>>

\* One iteration of the inner loop of update().
UpdateCell ==
    /\ pass.active
    /\ pass.k < width * height
    /\ LET r == updateCell(cells, scratch_cells, width, height, pass.k)
       IN  /\ cells' = r.cells
           /\ scratch_cells' = r.scratch_cells
           /\ counts' = [j \in 0 .. pass.k |-> IF j = pass.k THEN r.n ELSE counts[j]]
    /\ pass' = [pass EXCEPT !.k = @ + 1]
    /\ last' = "update_cell"
    /\ UNCHANGED <<width, height, frame, signal,
                   dim0, gen0, gens, pre_cells, pre_frame, pre_grid, app, twin, rule>>

\* The loops of update() are over: std::mem::swap(cells, scratch_cells), return.
UpdateSwap ==
    /\ pass.active
    /\ pass.k >= width * height
    /\ cells' = scratch_cells
    /\ scratch_cells' = cells
    /\ pass' = [pass EXCEPT !.active = FALSE, !.swaps = @ + 1]
    /\ gens' = gens + 1
    /\ last' = "update"
    /\ UNCHANGED <<width, height, frame, signal,
                   dim0, gen0, pre_cells, counts, pre_frame, pre_grid, app, twin, rule>>

NextStep ==
    \/ UpdateEnter
    \/ UpdateCell
    \/ UpdateSwap

SpecStep == InitStep /\ [][NextStep]_vars

\* ---------------------------------------------------------- the App runs
\* The two calls of the RedrawRequested arm in the other order: draw, then update.
redrawDrawFirst(c, s, w, h, f, g) ==
    [cells |-> update(c, s, w, h).cells,
     scratch_cells |-> update(c, s, w, h).scratch_cells,
     frame |-> draw(c, f),
     drawn_at |-> g]

\* The two calls of the RedrawRequested arm: self.conway.update(), then
\* self.conway.draw(frame).  g is the number of update() calls completed
\* before the event, drawn_at the number completed when draw() is called.
redraw(c, s, w, h, f, g) ==
    [cells |-> update(c, s, w, h).cells,
     scratch_cells |-> update(c, s, w, h).scratch_cells,
     frame |-> draw(update(c, s, w, h).cells, f),
     drawn_at |-> g + 1]

\* App::new(width, height): window and pixels are None, conway is new_random.
InitApp ==
    /\ \E d \in Dims :
           \E rng \in [DOMAIN new(d[1], d[2]).cells -> BOOLEAN] :
               InitCore(new_random(d[1], d[2], rng), "new_random")
    /\ app = [phase |-> "created", redraw |-> FALSE, draws |-> 0, drawn_gens |-> {},
              presented |-> 0, shown |-> <<>>, shown_at |-> 0, first_at |-> 0]
    /\ pass = "unused"
    /\ twin = "unused"
    /\ rule = "unused"

\* App::resumed: the window is created, then Pixels::new(width, height, ..)
\* either gives the frame of width*height*4 bytes and a redraw is requested,
\* or fails and the event loop is told to exit.
Resumed ==
    /\ app.phase = "created"
    /\ \/ /\ \E fill \in FillBytes : frame' = [i \in 0 .. width * height * 4 - 1 |-> fill]
          /\ app' = [app EXCEPT !.phase = "running", !.redraw = TRUE]
       \/ /\ frame' = frame
          /\ app' = [app EXCEPT !.phase = "exiting"]
    /\ last' = "resumed"
    /\ UNCHANGED <<cells, scratch_cells, width, height, signal,
                   dim0, gen0, gens, pre_cells, counts, pre_frame, pre_grid, pass, twin, rule>>

\* App::window_event, WindowEvent::CloseRequested
CloseRequested ==
    /\ app.phase = "running"
    /\ app' = [app EXCEPT !.phase = "exiting"]
    /\ last' = "close"
    /\ UNCHANGED <<cells, scratch_cells, width, height, frame, signal,
                   dim0, gen0, gens, pre_cells, counts, pre_frame, pre_grid, pass, twin, rule>>

\* App::window_event, WindowEvent::RedrawRequested: update, draw, then
\* pixels.render(), which presents the frame or fails (the loop is told to
\* exit); the sleep; request_redraw().
RedrawRequested ==
    /\ app.phase = "running"
    /\ app.redraw
    /\ signal = "none"
    /\ gens < MaxGens
    /\ LET r == redraw(cells, scratch_cells, width, height, frame, gens)
       IN  /\ cells' = r.cells
           /\ scratch_cells' = r.scratch_cells
           /\ frame' = r.frame
           /\ \E rendered \in BOOLEAN :
                  app' = IF rendered
                         THEN [app EXCEPT !.draws = @ + 1,
                                          !.drawn_gens = @ \cup {r.drawn_at},
                                          !.presented = @ + 1,
                                          !.shown = r.frame,
                                          !.shown_at = r.drawn_at,
                                          !.first_at = IF app.presented = 0 THEN r.drawn_at ELSE @,
                                          !.redraw = TRUE]
                         ELSE [app EXCEPT !.draws = @ + 1,
                                          !.drawn_gens = @ \cup {r.drawn_at},
                                          !.phase = "exiting",
                                          !.redraw = TRUE]
    /\ signal' = IF updatePanics(cells, scratch_cells, width, height) THEN "panic" ELSE "none"
    /\ pre_cells' = cells
    /\ counts' = [k \in 0 .. width * height - 1 |->
                     neighbors(cells, width, height, k % width, k \div width)]
    /\ pre_frame' = frame
    /\ pre_grid' = <<cells', scratch_cells', width, height>>
    /\ gens' = gens + 1
    /\ last' = "redraw"
    /\ UNCHANGED <<width, height, dim0, gen0, pass, twin, rule>>

NextApp ==
    \/ Resumed
    \/ CloseRequested
    \/ RedrawRequested

SpecApp == InitApp /\ [][NextApp]_vars

\* --------------------------------------------------------- the twin runs
\* Contents scratch_cells could hold instead of the all-false of new().
AltScratch(c) ==
    {[i \in DOMAIN c |-> TRUE], [i \in DOMAIN c |-> ~c[i]], [i \in DOMAIN c |-> i % 2 = 0]}

\* Two grids of the same width, height and cells: the one of new_random and a
\* twin whose scratch_cells holds something else.
InitTwin ==
    /\ \E d \in Dims :
           \E rng \in [DOMAIN new(d[1], d[2]).cells -> BOOLEAN] :
               InitCore(new_random(d[1], d[2], rng), "new_random")
    /\ \E alt \in AltScratch(cells) :
           twin = [cells |-> cells, scratch_cells |-> alt, scratch0 |-> alt, frame |-> frame]
    /\ app = "unused"
    /\ pass = "unused"
    /\ rule = "unused"

\* Both grids are given the same frame of width*height*4 bytes.
TwinFrame ==
    /\ \E fill \in FillBytes :
           /\ FrameCore(4 * width * height, fill)
           /\ twin' = [twin EXCEPT !.frame = [i \in 0 .. 4 * width * height - 1 |-> fill]]
    /\ UNCHANGED <<app, pass, rule>>

\* update() on both grids.
TwinUpdate ==
    /\ UpdateCore
    /\ twin' = [twin EXCEPT
                    !.cells = update(twin.cells, twin.scratch_cells, width, height).cells,
                    !.scratch_cells =
                        update(twin.cells, twin.scratch_cells, width, height).scratch_cells]
    /\ UNCHANGED <<app, pass, rule>>

\* draw() on both grids.
TwinDraw ==
    /\ DrawCore
    /\ twin' = [twin EXCEPT !.frame = draw(twin.cells, twin.frame)]
    /\ UNCHANGED <<app, pass, rule>>

NextTwin ==
    \/ TwinFrame
    \/ TwinUpdate
    \/ TwinDraw

SpecTwin == InitTwin /\ [][NextTwin]_vars

\* --------------------------------------------------------- the rule runs
\* Largest neighbor count given to next_cell_state (a u32 in the source).
MaxNeighbors == 30

\* A call of next_cell_state(alive, n) about to be made, on some grid.
InitRule ==
    /\ InitCore(new(0, 0), "new")
    /\ \E a \in BOOLEAN, n \in 0 .. MaxNeighbors :
           rule = [alive |-> a, neighbors |-> n, returned |-> FALSE, out |-> FALSE]
    /\ app = "unused"
    /\ pass = "unused"
    /\ twin = "unused"

\* Self::next_cell_state(alive, n) returns.
CallRule ==
    /\ ~rule.returned
    /\ rule' = [rule EXCEPT !.returned = TRUE,
                            !.out = next_cell_state(rule.alive, rule.neighbors)]
    /\ UNCHANGED <<cells, scratch_cells, width, height, frame, signal, last,
                   dim0, gen0, gens, pre_cells, counts, pre_frame, pre_grid, app, pass, twin>>

NextRule == CallRule

SpecRule == InitRule /\ [][NextRule]_vars

\* ------------------------------------------------------ the blinker runs
\* Three cells in a row around (cx, cy): along x when horiz, along y otherwise.
blinkerAt(w, h, cx, cy, horiz) ==
    [i \in 0 .. w * h - 1 |->
        IF horiz THEN i \div w = cy /\ (i % w) \in (cx - 1) .. (cx + 1)
                 ELSE i % w = cx /\ (i \div w) \in (cy - 1) .. (cy + 1)]

\* Every placement of three alive cells in a row on a w x h grid.
Blinkers(w, h) ==
    {blinkerAt(w, h, cx, cy, TRUE) : cx \in 1 .. w - 2, cy \in 0 .. h - 1}
        \cup {blinkerAt(w, h, cx, cy, FALSE) : cx \in 0 .. w - 1, cy \in 1 .. h - 2}

FixtureSides == 5 .. (5 + FixtureExtra)

\* Conway::new_random(width, height) having drawn a blinker.
InitBlinker ==
    \E w \in FixtureSides, h \in FixtureSides :
        \E rng \in Blinkers(w, h) : InitWith(new_random(w, h, rng), "new_random")

SpecBlinker == InitBlinker /\ [][Next]_vars

\* ---------------------------------------------------- terms of the claims
\* The cell (x, y) of a grid c of width w.
At(c, w, x, y) == c[x + w * y]

\* The in-bounds coordinates within Chebyshev distance 1 of (x, y), (x, y) included.
Block3(w, h, x, y) ==
    {p \in (0 .. w - 1) \X (0 .. h - 1) :
        p[1] \in (x - 1) .. (x + 1) /\ p[2] \in (y - 1) .. (y + 1)}

\* The number of alive cells among the in-bounds cells surrounding (x, y), the
\* cell itself excluded.
LiveAround(c, w, h, x, y) ==
    Cardinality({p \in Block3(w, h, x, y) \ {<<x, y>>} : At(c, w, p[1], p[2])})

\* The number of alive in-bounds cells within Chebyshev distance 1 of (x, y).
LiveWithin1(c, w, h, x, y) ==
    Cardinality({p \in Block3(w, h, x, y) : At(c, w, p[1], p[2])})

\* The rule B3/S23.
B3S23(alive, k) == IF alive THEN k \in {2, 3} ELSE k = 3

AllDead(c) == \A i \in DOMAIN c : ~c[i]

Alive(c) == {i \in DOMAIN c : c[i]}

Coords == (0 .. width - 1) \X (0 .. height - 1)

IsCorner(x, y) == x \in {0, width - 1} /\ y \in {0, height - 1}

IsEdge(x, y) == x \in {0, width - 1} \/ y \in {0, height - 1}

\* gen0 is a 2x2 square of alive cells, every other cell dead.
IsBlock(c, w, h) ==
    \E x \in 0 .. w - 2, y \in 0 .. h - 2 :
        Alive(c) = {x + w * y, (x + 1) + w * y, x + w * (y + 1), (x + 1) + w * (y + 1)}

\* c is a blinker whose middle cell is not on the border of the grid.
IsInnerBlinker(c, w, h) ==
    \E cx \in 1 .. w - 2, cy \in 1 .. h - 2, horiz \in BOOLEAN :
        c = blinkerAt(w, h, cx, cy, horiz)

\* The 4 bytes of pixel i of a frame f.
Pixel(f, i) == <<f[4 * i], f[4 * i + 1], f[4 * i + 2], f[4 * i + 3]>>

White == <<255, 255, 255, 255>>
Black == <<0, 0, 0, 255>>

\* ---------------------------------------------------------------- claims

\* C1: after one update() every cell's new state follows B3/S23 with respect to
\* the number of alive in-bounds cells surrounding it (itself excluded) in the
\* grid as it was when update() was entered.
C1_UpdateFollowsB3S23 ==
    (last = "update" /\ signal = "none") =>
        \A p \in Coords :
            At(cells, width, p[1], p[2])
                = B3S23(At(pre_cells, width, p[1], p[2]),
                        LiveAround(pre_cells, width, height, p[1], p[2]))

\* C2: neighbors(x, y) is the number of alive cells among the 8 cells around
\* (x, y), the center excluded; so it is in 0..8, at most 3 for a corner cell
\* and at most 5 for an edge cell.
C2_NeighborsExcludesCenter ==
    (last = "update" /\ signal = "none") =>
        \A p \in Coords :
            LET n == counts[p[1] + width * p[2]]
            IN  /\ n = LiveAround(pre_cells, width, height, p[1], p[2])
                /\ n \in 0 .. 8
                /\ IsCorner(p[1], p[2]) => n <= 3
                /\ IsEdge(p[1], p[2]) => n <= 5

\* C3: a blinker on a grid of at least 5x5 (its middle cell off the border, so
\* that the oscillation fits the grid) differs from the original after one
\* update() and is the original again after two.
C3_BlinkerPeriod2 ==
    (width >= 5 /\ height >= 5 /\ IsInnerBlinker(gen0, width, height) /\ signal = "none") =>
        /\ gens = 1 => cells # gen0
        /\ gens = 2 => cells = gen0

\* C4: a block (a 2x2 square of alive cells, all else dead) is unchanged by any
\* number of update() calls.
C4_BlockStill ==
    (IsBlock(gen0, width, height) /\ signal = "none") => cells = gen0

\* C5: neighbors(x, y) counts in-bounds cells within Chebyshev distance 1 of
\* (x, y) only, each once: no coordinate outside the grid is wrapped to another
\* cell; on a 3x3 grid with only the center alive every corner and every
\* edge-midpoint cell reports 1.
C5_NeighborsNeverWrap ==
    (last = "update" /\ signal = "none") =>
        /\ \A p \in Coords :
               counts[p[1] + width * p[2]] = LiveWithin1(pre_cells, width, height, p[1], p[2])
        /\ (width = 3 /\ height = 3 /\ Alive(pre_cells) = {4}) =>
               \A p \in Coords \ {<<1, 1>>} : counts[p[1] + width * p[2]] = 1

\* C5's case: update() has run on the 3x3 grid with only the center alive.
C5_Witness ==
    /\ last = "update"
    /\ width = 3 /\ height = 3
    /\ Alive(pre_cells) = {4}

\* C5's other case: update() has run on a grid whose cells of the right and
\* bottom edge are alive while the left edge's top cell is dead.
C5_WitnessOppositeEdge ==
    /\ last = "update"
    /\ width = 3 /\ height = 3
    /\ Alive(pre_cells) = {2, 5, 6, 7, 8}
    /\ counts[0] = 0

C7_DrawWritesEveryPixel ==
    (last = "draw" /\ VecLen(pre_frame) = width * height * 4) =>
        /\ DOMAIN frame = DOMAIN pre_frame
        /\ \A i \in 0 .. width * height - 1 :
               Pixel(frame, i) = IF At(cells, width, i % width, i \div width)
                                 THEN White ELSE Black

\* C7's case: draw() has run with only cell (0,0) alive on a grid of several cells.
C7_Witness ==
    /\ last = "draw"
    /\ VecLen(pre_frame) = width * height * 4
    /\ width * height >= 4
    /\ Alive(cells) = {0}
    /\ Pixel(frame, 0) = White

C9_AllDeadStaysDead ==
    /\ (last = "update" /\ signal = "none" /\ AllDead(pre_cells)) => AllDead(cells)
    /\ AllDead(gen0) => AllDead(cells)

\* C9's case: two update() calls have run on an all-dead 3x3 grid.
C9_Witness ==
    /\ last = "update"
    /\ gens = 2
    /\ width = 3 /\ height = 3
    /\ AllDead(gen0)

\* C10: cells and scratch_cells both hold width*height elements in every
\* state, and width and height are as constructed.
C10_LengthsKept ==
    /\ VecLen(cells) = width * height
    /\ VecLen(scratch_cells) = width * height
    /\ <<width, height>> = dim0

\* C10's case: update() and draw() have both run on a 2x3 grid.
C10_Witness ==
    /\ last = "draw"
    /\ gens = 2
    /\ width = 2 /\ height = 3
    /\ VecLen(cells) = 6

\* The grid after n generations from c, each computed as update() computes it.
RECURSIVE GenAfter(_, _, _, _)
GenAfter(c, w, h, n) ==
    IF n = 0 THEN c ELSE GenAfter(update(c, c, w, h).cells, w, h, n - 1)

\* C11: draw() never changes the grid: cells, scratch_cells, width and height
\* are after every draw() what they were when it was entered, whatever the
\* frame's length; so an update() after the draw() yields what it would have
\* yielded without it.
C11_DrawKeepsGrid ==
    last = "draw" =>
        /\ <<cells, scratch_cells, width, height>> = pre_grid
        /\ update(cells, scratch_cells, width, height)
               = update(pre_grid[1], pre_grid[2], pre_grid[3], pre_grid[4])

\* C11's case: draw() has written a frame of the wrong length after an update().
C11_Witness ==
    /\ last = "draw"
    /\ gens = 1
    /\ width * height >= 2
    /\ VecLen(frame) # width * height * 4
    /\ frame # [i \in DOMAIN frame |-> 85]
    /\ Alive(cells) # {}

\* C14: after a completed update() scratch_cells holds what cells held when
\* update() was entered, and cells holds the generation computed from it.
C14_SwapKeepsPrevious ==
    (last = "update" /\ signal = "none") =>
        /\ scratch_cells = pre_cells
        /\ DOMAIN cells = DOMAIN pre_cells
        /\ \A k \in DOMAIN cells :
               cells[k] = IF pre_cells[k] THEN counts[k] \in {2, 3} ELSE counts[k] = 3

\* C14's case: update() has changed a grid of several cells.
C14_Witness ==
    /\ last = "update"
    /\ width = 3 /\ height = 2
    /\ cells # pre_cells
    /\ Alive(cells) # {}
    /\ scratch_cells = pre_cells

\* C16: update() never fails: no call signals a panic, every cell index of the
\* loops is inside both vectors, and every neighbor coordinate whose index
\* would fall outside cells is outside the grid, where the index is not read.
C16_UpdateTotal ==
    /\ signal = "none"
    /\ \A p \in Coords :
           /\ p[1] + width * p[2] \in DOMAIN cells \cap DOMAIN scratch_cells
           /\ \A d \in (-1 .. 1) \X (-1 .. 1) :
                  (p[1] + d[1]) + (p[2] + d[2]) * width \notin DOMAIN cells
                      => <<p[1] + d[1], p[2] + d[2]>> \notin Coords

\* C16's case: update() has run twice on a grid one cell wide.
C16_Witness ==
    /\ last = "update"
    /\ gens = 2
    /\ width = 1 /\ height = 3
    /\ signal = "none"

\* C16's other case: update() has run on a grid one cell high.
C16_WitnessRow ==
    /\ last = "update"
    /\ width = 3 /\ height = 1
    /\ signal = "none"

\* C17: for a frame of any length L draw() signals nothing, keeps the length,
\* writes exactly the pixels 0 .. min(cells.len(), L div 4) - 1 and leaves
\* every byte from offset 4 * min(cells.len(), L div 4) on as it was.
C17_DrawWritesWholePixelsOnly ==
    last = "draw" =>
        LET fit == VecLen(pre_frame) \div 4
            m == IF VecLen(cells) <= fit THEN VecLen(cells) ELSE fit
        IN  /\ signal = "none"
            /\ VecLen(frame) = VecLen(pre_frame)
            /\ \A j \in DOMAIN frame :
                   frame[j] = IF j < 4 * m
                              THEN (IF cells[j \div 4] THEN White ELSE Black)[(j % 4) + 1]
                              ELSE pre_frame[j]

\* C17's case: draw() has run on a frame one byte longer than the grid needs.
C17_Witness ==
    /\ last = "draw"
    /\ width * height >= 2
    /\ VecLen(pre_frame) = width * height * 4 + 1
    /\ frame[VecLen(frame) - 1] = 85
    /\ frame[0] # 85

\* C13: while update() is inside its loops cells is the grid of entry and no
\* swap has happened; every count computed so far is the count of the grid of
\* entry, and every cell written so far went to scratch_cells; once update()
\* has returned, the swap has happened exactly once, after the last cell.
C13_NoLookAhead ==
    /\ pass.active =>
           /\ cells = pre_cells
           /\ pass.swaps = 0
           /\ pass.k <= width * height
           /\ \A j \in 0 .. pass.k - 1 :
                  /\ counts[j] = neighbors(pre_cells, width, height, j % width, j \div width)
                  /\ scratch_cells[j] = next_cell_state(pre_cells[j], counts[j])
    /\ (last = "update" /\ ~pass.active) =>
           /\ pass.swaps = 1
           /\ pass.k = width * height
           /\ scratch_cells = pre_cells
           /\ \A j \in DOMAIN cells :
                  cells[j] = next_cell_state(pre_cells[j],
                                 neighbors(pre_cells, width, height, j % width, j \div width))

\* C13's case: update() is past several cells of a 3x3 grid, one of which it
\* has changed in scratch_cells, with cells still to compute.
C13_Witness ==
    /\ pass.active
    /\ width = 3 /\ height = 3
    /\ pass.k = 5
    /\ \E j \in 0 .. 4 : scratch_cells[j] # pre_cells[j]
    /\ gens = 1

\* The frame of width*height*4 bytes that shows the grid c.
Shows(f, c) ==
    /\ VecLen(f) = 4 * VecLen(c)
    /\ \A i \in DOMAIN c : Pixel(f, i) = IF c[i] THEN White ELSE Black

\* C12: every handled redraw event has made one update() and then one draw():
\* as many draw() calls as update() calls have run, each frame was drawn from
\* the grid as the event's update() left it, and the k-th presented frame
\* shows the k-th generation from the constructed grid.
C12_OneUpdateThenOneDrawPerFrame ==
    /\ app.draws = gens
    /\ app.presented <= gens
    /\ gens <= app.presented + 1
    /\ gens = app.presented + 1 => app.phase = "exiting"
    /\ last = "redraw" => Shows(frame, cells)
    /\ app.presented >= 1 =>
           /\ app.shown_at = app.presented
           /\ Shows(app.shown, GenAfter(gen0, width, height, app.presented))

\* C12's case: the second frame has been presented and differs from the first generation's.
C12_Witness ==
    /\ app.presented = 2
    /\ width = 3 /\ height = 3
    /\ cells # pre_cells
    /\ app.shown = frame
    /\ Alive(cells) # {}

\* C18: draw() is never called on a grid that has had no update(): every
\* draw() came after at least one completed update(), and the first frame
\* presented was drawn from generation 1.
C18_Gen0NeverDrawn ==
    /\ 0 \notin app.drawn_gens
    /\ app.draws >= 1 => gens >= 1
    /\ app.presented >= 1 =>
           /\ app.first_at = 1
           /\ (app.presented = 1 => Shows(app.shown, GenAfter(gen0, width, height, 1)))

\* C18's case: the first frame has been presented, and generation 1 differs
\* from the constructed grid.
C18_Witness ==
    /\ app.presented = 1
    /\ gens = 1
    /\ width * height >= 4
    /\ cells # gen0
    /\ ~Shows(app.shown, gen0)

\* C15: what scratch_cells holds never shows: a grid and its twin with the same
\* width, height and cells but other scratch_cells have the same cells and the
\* same frame after every sequence of update() and draw() calls.
C15_ScratchNeverObserved ==
    /\ twin.cells = cells
    /\ twin.frame = frame

\* C15's case: update() and draw() have run on two grids whose scratch_cells
\* differed, and an alive cell has stayed alive.
C15_Witness ==
    /\ last = "draw"
    /\ gens = 2
    /\ width = 3 /\ height = 3
    /\ twin.scratch0 # gen0
    /\ twin.scratch0 # [i \in DOMAIN gen0 |-> FALSE]
    /\ \E i \in DOMAIN cells : cells[i] /\ pre_cells[i]
    /\ twin.frame # [i \in DOMAIN frame |-> 85]

\* C19: next_cell_state(alive, n) is true exactly when alive and n is 2 or 3,
\* or dead and n is 3; so it is false for every n above 8.
C19_RuleTable ==
    rule.returned =>
        /\ rule.out = ((rule.alive /\ rule.neighbors \in {2, 3})
                          \/ (~rule.alive /\ rule.neighbors = 3))
        /\ rule.neighbors > 8 => ~rule.out

\* C19's case: next_cell_state has returned for an alive cell with 9 neighbors or more.
C19_Witness ==
    /\ rule.returned
    /\ rule.alive
    /\ rule.neighbors > 8
    /\ ~rule.out

\* C19's other case: next_cell_state has returned true for a dead cell.
C19_WitnessBirth ==
    /\ rule.returned
    /\ ~rule.alive
    /\ rule.neighbors = 3
    /\ rule.out

====
